---- MODULE Spec2Model ----
(***************************************************************************)
(* The scenario-forecasting engine of app/services/forecasting.py:         *)
(* ForecastingService.generate_scenarios and everything it calls.          *)
(*                                                                         *)
(* Numbers.  The code computes in IEEE doubles; the model computes in      *)
(* fixed point with integers:                                              *)
(*   a share (nuclear_share)            in units of 0.00001                *)
(*   an energy (..._twh)                in units of 0.0001 TWh             *)
(*   a float number of reactor units    in units of 0.01 unit              *)
(*   a weight or max_share              in percent                         *)
(*   microreactor_share_of_nuclear      as the exact quotient <<num, den>> *)
(* A division the code performs is a floor division here, except the one   *)
(* that yields microreactor_share_of_nuclear, which is kept as a quotient. *)
(***************************************************************************)
EXTENDS Integers, Sequences, FiniteSets, TLC

(***************************************************************************)
(* Bounds of the model.                                                    *)
(***************************************************************************)
\* the longest us_electricity_summary table
MaxHistory == 2
\* the longest scenarios list of a request
MaxScenarios == 2
\* end_year - start_year of a request with a non-empty year range
MaxSpan == 2
\* generate_scenarios calls in one behaviour
MaxRuns == 2
MaxGrid == 4
MaxSse == 2
\* the records of one EIA response, and the count at which the tallies of
\* the refresh request stop growing
MaxRecords == 2
MaxCollections == 3

(***************************************************************************)
(* Program constants.                                                      *)
(***************************************************************************)
forecast_start_year == 2025
forecast_end_year == 2050
\* _calculate_microreactor_units: start_year, and the year the curve is scaled to
microreactor_start_year == 2028
microreactor_full_year == 2050

ModelOrder == <<"logistic", "arima", "prophet", "ml_ensemble">>
ModelNames == {ModelOrder[i] : i \in DOMAIN ModelOrder}

\* model_weights, in percent
model_weights ==
    [m \in ModelNames |->
        CASE m = "logistic" -> 30
          [] m = "arima" -> 25
          [] m = "prophet" -> 25
          [] m = "ml_ensemble" -> 20]

current_model_version == "v1.0"

\* microreactor_params; max_share in percent
microreactor_params ==
    [s \in {"conservative", "base", "aggressive"} |->
        CASE s = "conservative" -> [max_units |-> 3000, max_share |-> 10]
          [] s = "base" -> [max_units |-> 12000, max_share |-> 20]
          [] s = "aggressive" -> [max_units |-> 40000, max_share |-> 30]]

\* ARIMAModel.forecast: scenario_multiplier, in tenths
scenario_multiplier ==
    [s \in {"conservative", "base", "aggressive"} |->
        CASE s = "conservative" -> 8
          [] s = "base" -> 10
          [] s = "aggressive" -> 12]

(***************************************************************************)
(* Inputs.                                                                 *)
(***************************************************************************)
\* scenario names a request may carry; "other" is a name without defined
\* coefficients or overlay parameters
ScenarioNames == {"conservative", "base", "aggressive", "other"}

ScenarioLists ==
    UNION {[1..n -> ScenarioNames] : n \in 0..MaxScenarios}

\* start_year of a request: below the configured range, around the
\* microreactor start year, and at the end of the configured range
StartYears == {forecast_start_year - 1, microreactor_start_year - 1,
               microreactor_full_year - 1}

\* a request: an empty year range (end_year < start_year) or a range of
\* MaxSpan + 1 years
Requests ==
    [scenarios : ScenarioLists,
     start_year : StartYears,
     span : {-1, MaxSpan},
     include_microreactors : BOOLEAN]

end_year(r) == r.start_year + r.span

\* a row of processed_data.us_electricity_summary (USElectricitySummary);
\* nulls names the nullable columns that hold NULL in this row
SummaryRecord(i, nulls) ==
    [year |-> 2022 + i,
     nuclear_share |-> 17000 + 1000 * i,
     nuclear_generation_gwh |-> 700000 + 50000 * i,
     urban_electricity_demand_gwh |-> 3000000 + 40000 * i,
     nulls |-> nulls]

\* the tables: n rows, dates ascending and distinct, of which the last may
\* hold a NULL nuclear_share or a NULL nuclear_generation_gwh
HistoryTables ==
    {<<>>} \cup
    UNION {{[i \in 1..n |-> SummaryRecord(i, IF i = n THEN nulls ELSE {})] :
              nulls \in {{}, {"nuclear_share"}, {"nuclear_generation_gwh"}}} :
           n \in 1..MaxHistory}

(***************************************************************************)
(* Helpers.                                                                *)
(***************************************************************************)
Min(a, b) == IF a < b THEN a ELSE b
Max(a, b) == IF a > b THEN a ELSE b

\* floor(a * b / c) for a, b >= 0 and c > 0, without the product a * b
MulDiv(a, b, c) == (a \div c) * b + ((a % c) * b) \div c

RECURSIVE SumTo(_, _)
\* the sum of f[1] .. f[n]
SumTo(f, n) == IF n = 0 THEN 0 ELSE f[n] + SumTo(f, n - 1)

\* what a call gives: the rows it returns, or that it raised
Raised == [ok |-> FALSE, rows |-> <<>>]
Returned(rows) == [ok |-> TRUE, rows |-> rows]

\* a projection row as a model's forecast() or _ensemble_forecasts builds it;
\* the fields are Python floats: nans names the fields of the row whose float
\* is NaN or an infinity, and the number kept for such a field means nothing
ProjectionRow(scenario, year, share, generation, demand, version) ==
    [scenario_name |-> scenario,
     year |-> year,
     nuclear_share |-> share,
     nuclear_generation_twh |-> generation,
     urban_demand_twh |-> demand,
     microreactor_units |-> 0,
     microreactor_generation_twh |-> 0,
     microreactor_share_of_nuclear |-> <<0, 1>>,
     model_version |-> version,
     nans |-> {}]

\* for scenario in scenarios: for year in range(start_year, end_year + 1),
\* in iteration order
Cells(scenarios, first_year, last_year) ==
    LET n_years == IF last_year >= first_year THEN last_year - first_year + 1 ELSE 0
        n == Len(scenarios) * n_years
    IN  IF n = 0 THEN <<>>
        ELSE [i \in 1..n |->
                [scenario_name |-> scenarios[((i - 1) \div n_years) + 1],
                 year |-> first_year + ((i - 1) % n_years)]]

(***************************************************************************)
(* _get_historical_data.                                                   *)
(***************************************************************************)
\* the columns of pd.DataFrame(data) for a non-empty data
FrameColumns == {"date", "nuclear_share", "nuclear_generation_twh",
                 "urban_demand_twh", "urban_population_percent"}

\* record.nuclear_generation_gwh / 1000 and
\* record.urban_electricity_demand_gwh / 1000 raise TypeError on None.
\* pd.DataFrame([]) has no columns.  record.date is a datetime.date
\* (Column(Date)), so the date column is of dtype object, not datetime64.
_get_historical_data(table) ==
    IF \E i \in DOMAIN table :
          table[i].nulls \cap {"nuclear_generation_gwh",
                               "urban_electricity_demand_gwh"} # {}
    THEN [ok |-> FALSE, frame |-> [columns |-> {}, datetimelike |-> FALSE, rows |-> <<>>]]
    ELSE [ok |-> TRUE,
          frame |->
            [columns |-> IF table = <<>> THEN {} ELSE FrameColumns,
             datetimelike |-> FALSE,
             rows |-> [i \in DOMAIN table |->
                        [date |-> table[i].year,
                         nuclear_share |-> table[i].nuclear_share,
                         nuclear_generation_twh |-> table[i].nuclear_generation_gwh * 10,
                         urban_demand_twh |-> table[i].urban_electricity_demand_gwh * 10,
                         nulls |-> table[i].nulls \cap {"nuclear_share"}]]]]

\* the rows of the frame whose nuclear_share is None / NaN
NullShares(frame) ==
    {i \in DOMAIN frame.rows : "nuclear_share" \in frame.rows[i].nulls}

(***************************************************************************)
(* The forecasting models.  Each forecast gives the set of its possible    *)
(* outcomes: one outcome, except where a library call on NaN input may      *)
(* either raise or return NaN.                                             *)
(***************************************************************************)
\* LogisticModel.forecast.  historical_data['date'] raises KeyError on a
\* frame without columns and .dt raises AttributeError on a column of
\* datetime.date objects; _fit_logistic returns None when a share is NaN
\* (no sse is below inf) and unpacking None raises TypeError; in the loop
\* historical_data['urban_electricity_demand_gwh'] raises KeyError, the
\* frame's column being urban_demand_twh.  So the call returns only when
\* the loop body never runs, and then returns [].
LogisticModel_forecast(frame, first_year, last_year, scenarios) ==
    IF \/ "date" \notin frame.columns
       \/ ~frame.datetimelike
       \/ "nuclear_share" \notin frame.columns
       \/ NullShares(frame) # {}
       \/ /\ Cells(scenarios, first_year, last_year) # <<>>
          /\ "urban_electricity_demand_gwh" \notin frame.columns
    THEN {Raised}
    ELSE {Returned(<<>>)}

\* np.polyfit(range(len(series)), series, 1)[0] as the quotient
\* <<numerator, denominator>> of the least-squares slope against the
\* observation index 0 .. n-1; for a single observation the slope of least
\* norm, 0
ArimaTrend(frame) ==
    LET n == Len(frame.rows)
        y == [i \in 1..n |-> frame.rows[i].nuclear_share]
        sx == SumTo([i \in 1..n |-> i - 1], n)
        sxx == SumTo([i \in 1..n |-> (i - 1) * (i - 1)], n)
        sy == SumTo(y, n)
        sxy == SumTo([i \in 1..n |-> (i - 1) * y[i]], n)
        den == n * sxx - sx * sx
    IN  IF den = 0 THEN <<0, 1>> ELSE <<n * sxy - sx * sy, den>>

\* historical_data['date'].dt.year.max()
LastHistoricalYear(frame) ==
    CHOOSE y \in {frame.rows[i].date : i \in DOMAIN frame.rows} :
        \A i \in DOMAIN frame.rows : frame.rows[i].date <= y

\* max(0, min(1, (series[-1] + trend[0] * years_ahead) * multiplier));
\* with a NaN trend min(1, nan) is 1, so the share is 1
ArimaShare(frame, scenario, year, nan) ==
    LET trend == ArimaTrend(frame)
        last == frame.rows[Len(frame.rows)].nuclear_share
        years_ahead == year - LastHistoricalYear(frame)
        pred == ((last * trend[2] + trend[1] * years_ahead)
                    * scenario_multiplier[scenario]) \div (trend[2] * 10)
    IN  IF nan THEN 100000 ELSE Max(0, Min(100000, pred))

ArimaRows(frame, first_year, last_year, scenarios, nan) ==
    LET cells == Cells(scenarios, first_year, last_year)
    IN  [i \in DOMAIN cells |->
            LET share == ArimaShare(frame, cells[i].scenario_name, cells[i].year, nan)
            IN  ProjectionRow(cells[i].scenario_name, cells[i].year, share,
                              share * 400, 40000000, "arima_v1.0")]

\* ARIMAModel.forecast.  historical_data['nuclear_share'] raises KeyError
\* on a frame without columns; polyfit raises TypeError on a column of
\* None only (dtype object) and, on a float column holding NaN, raises
\* LinAlgError or returns NaN, depending on the LAPACK build; on a single
\* observation polyfit divides the column of x = [0] by its norm 0 (lhs /=
\* scale), and lstsq is given NaN in the same way; the multiplier lookup raises KeyError for a scenario outside the table;
\* .dt raises AttributeError on a column of datetime.date objects.
ARIMAModel_forecast(frame, first_year, last_year, scenarios) ==
    LET nulls == NullShares(frame)
        cells == Cells(scenarios, first_year, last_year)
    IN  IF \/ "nuclear_share" \notin frame.columns
           \/ (nulls # {} /\ nulls = DOMAIN frame.rows)
           \/ \E i \in DOMAIN scenarios : scenarios[i] \notin DOMAIN scenario_multiplier
           \/ (cells # <<>> /\ ("date" \notin frame.columns \/ ~frame.datetimelike))
        THEN {Raised}
        ELSE IF nulls # {} \/ Len(frame.rows) = 1
        THEN {Raised, Returned(ArimaRows(frame, first_year, last_year, scenarios, TRUE))}
        ELSE {Returned(ArimaRows(frame, first_year, last_year, scenarios, FALSE))}

\* placeholder rows for range(start_year, end_year): the last year left out
LinearRowsExclusiveEnd(first_year, last_year, scenarios, base, step, version) ==
    LET cells == Cells(scenarios, first_year, last_year - 1)
    IN  [i \in DOMAIN cells |->
            LET share == base + step * (cells[i].year - 2025)
            IN  ProjectionRow(cells[i].scenario_name, cells[i].year, share,
                              share * 400, 40000000, version)]

\* the rows of the two placeholder models: share = base + step * (year - 2025),
\* generation = share * 4000, demand = 4000, for every scenario alike
LinearRows(first_year, last_year, scenarios, base, step, version) ==
    LET cells == Cells(scenarios, first_year, last_year)
    IN  [i \in DOMAIN cells |->
            LET share == base + step * (cells[i].year - 2025)
            IN  ProjectionRow(cells[i].scenario_name, cells[i].year, share,
                              share * 400, 40000000, version)]

\* ProphetModel.forecast: 0.2 + 0.01 * (year - 2025)
ProphetModel_forecast(frame, first_year, last_year, scenarios) ==
    {Returned(LinearRows(first_year, last_year, scenarios, 20000, 1000, "prophet_v1.0"))}

\* MLEnsembleModel.forecast: 0.18 + 0.008 * (year - 2025)
MLEnsembleModel_forecast(frame, first_year, last_year, scenarios) ==
    {Returned(LinearRows(first_year, last_year, scenarios, 18000, 800, "ml_ensemble_v1.0"))}

\* model.forecast(historical_data, start_year, end_year, scenarios) of
\* self.models[model_name]
forecast(model_name, frame, first_year, last_year, scenarios) ==
    CASE model_name = "logistic" ->
            LogisticModel_forecast(frame, first_year, last_year, scenarios)
      [] model_name = "arima" ->
            ARIMAModel_forecast(frame, first_year, last_year, scenarios)
      [] model_name = "prophet" ->
            ProphetModel_forecast(frame, first_year, last_year, scenarios)
      [] model_name = "ml_ensemble" ->
            MLEnsembleModel_forecast(frame, first_year, last_year, scenarios)

(***************************************************************************)
(* _ensemble_forecasts.                                                    *)
(***************************************************************************)
\* f['year'] == year and f['scenario_name'] == scenario
Matches(f, scenario, year) == f.year = year /\ f.scenario_name = scenario

\* next((f for f in forecasts if ...), None): the first matching row
FirstMatch(forecasts, scenario, year) ==
    forecasts[CHOOSE i \in DOMAIN forecasts :
                /\ Matches(forecasts[i], scenario, year)
                /\ \A j \in 1..(i - 1) : ~Matches(forecasts[j], scenario, year)]

\* the keys of predictions for a cell: the models with a non-empty forecast
\* list holding a row of the cell
Predictions(model_forecasts, scenario, year) ==
    {m \in DOMAIN model_forecasts :
        \E i \in DOMAIN model_forecasts[m] :
            Matches(model_forecasts[m][i], scenario, year)}

\* pred[field] * model_weights.get(model_name, 0)
Weighted(value, model_name) ==
    (value * (IF model_name \in DOMAIN model_weights
              THEN model_weights[model_name] ELSE 0)) \div 100

\* the weighted sum divided by the total weight of the models present
WeightedSumRenormalized(model_forecasts, scenario, year, field) ==
    LET present == Predictions(model_forecasts, scenario, year)
        sum == SumTo([k \in DOMAIN ModelOrder |->
                        IF ModelOrder[k] \in present
                        THEN Weighted(FirstMatch(model_forecasts[ModelOrder[k]],
                                                 scenario, year)[field],
                                      ModelOrder[k])
                        ELSE 0],
                     Len(ModelOrder))
        total == SumTo([k \in DOMAIN ModelOrder |->
                          IF ModelOrder[k] \in present
                          THEN model_weights[ModelOrder[k]] ELSE 0],
                       Len(ModelOrder))
    IN  MulDiv(sum, 100, total)

\* sum(pred[field] * model_weights.get(model_name, 0)
\*     for model_name, pred in predictions.items())
WeightedSum(model_forecasts, scenario, year, field) ==
    LET present == Predictions(model_forecasts, scenario, year)
    IN  SumTo([k \in DOMAIN ModelOrder |->
                 IF ModelOrder[k] \in present
                 THEN Weighted(FirstMatch(model_forecasts[ModelOrder[k]],
                                          scenario, year)[field],
                               ModelOrder[k])
                 ELSE 0],
              Len(ModelOrder))

\* the fields whose sum has a NaN or infinite term: every prediction of the
\* cell is a term of the sum, and a sum with such a term is no number
SumNans(model_forecasts, scenario, year) ==
    UNION {FirstMatch(model_forecasts[m], scenario, year).nans :
             m \in Predictions(model_forecasts, scenario, year)}

_ensemble_forecasts(model_forecasts, scenarios) ==
    LET cells == Cells(scenarios, forecast_start_year, forecast_end_year)
        kept == SelectSeq(cells,
                    LAMBDA c : Predictions(model_forecasts, c.scenario_name, c.year) # {})
    IN  [i \in DOMAIN kept |->
            [ProjectionRow(
                kept[i].scenario_name,
                kept[i].year,
                WeightedSum(model_forecasts, kept[i].scenario_name, kept[i].year,
                            "nuclear_share"),
                WeightedSum(model_forecasts, kept[i].scenario_name, kept[i].year,
                            "nuclear_generation_twh"),
                WeightedSum(model_forecasts, kept[i].scenario_name, kept[i].year,
                            "urban_demand_twh"),
                current_model_version)
             EXCEPT !.nans = SumNans(model_forecasts, kept[i].scenario_name,
                                     kept[i].year)]]

(***************************************************************************)
(* _add_microreactor_projections.                                          *)
(***************************************************************************)
\* (1 / (1 + exp(-0.35 * (year - 2035)))) / (1 / (1 + exp(-0.35 * 15))) in
\* millionths, evaluated in IEEE doubles as the code evaluates it; for 2050
\* the double product logistic_value * scale_factor is max_units exactly
\* for the three max_units of microreactor_params
LogisticRatio ==
    [year \in forecast_start_year..forecast_end_year |->
        CASE year = 2025 -> 29466   [] year = 2026 -> 41306
          [] year = 2027 -> 57624
          [] year = 2028 -> 79855   [] year = 2029 -> 109669
          [] year = 2030 -> 148824  [] year = 2031 -> 198854
          [] year = 2032 -> 260585  [] year = 2033 -> 333553
          [] year = 2034 -> 415551  [] year = 2035 -> 502623
          [] year = 2036 -> 589695  [] year = 2037 -> 671694
          [] year = 2038 -> 744662  [] year = 2039 -> 806393
          [] year = 2040 -> 856423  [] year = 2041 -> 895578
          [] year = 2042 -> 925392  [] year = 2043 -> 947622
          [] year = 2044 -> 963940  [] year = 2045 -> 975781
          [] year = 2046 -> 984301  [] year = 2047 -> 990395
          [] year = 2048 -> 994735  [] year = 2049 -> 997817
          [] year = 2050 -> 1000000]

\* the curve without the start-year guard
_calculate_microreactor_units_unguarded(year, max_units) ==
    MulDiv(LogisticRatio[year], max_units, 10000)

\* _calculate_microreactor_units, in hundredths of a unit
_calculate_microreactor_units(year, max_units) ==
    IF year < microreactor_start_year
    THEN 0
    ELSE MulDiv(LogisticRatio[year], max_units, 10000)

\* int(units)
IntOfUnits(units) == units \div 100

\* units * 1.5 * 0.9 * 8760 / 1e6: 0.011826 TWh a unit
UnitsGeneration(units) == MulDiv(units, 11826, 10000)

\* forecast['nuclear_generation_twh'] * params['max_share']
MaxGeneration(nuclear_generation, max_share) == (nuclear_generation * max_share) \div 100

\* the generation without the cap
UncappedGeneration(generation, max_generation) == generation

\* min(generation_twh, max_generation)
CappedGeneration(generation, max_generation) == Min(generation, max_generation)

\* the share as a percentage instead of a fraction
ShareOfNuclearInPercent(generation, nuclear_generation) ==
    IF nuclear_generation > 0 THEN <<generation * 100, nuclear_generation>> ELSE <<0, 1>>

\* generation_twh / forecast['nuclear_generation_twh']
\*     if forecast['nuclear_generation_twh'] > 0 else 0
ShareOfNuclear(generation, nuclear_generation) ==
    IF nuclear_generation > 0 THEN <<generation, nuclear_generation>> ELSE <<0, 1>>

\* a loop body that takes the parameters of base for a scenario without
\* parameters of its own: microreactor_params.get(scenario, base)
OverlayRowDefaultsToBase(f) ==
    LET params == IF f.scenario_name \in DOMAIN microreactor_params
                  THEN microreactor_params[f.scenario_name]
                  ELSE microreactor_params["base"]
        units == _calculate_microreactor_units(f.year, params.max_units)
        generation ==
            CappedGeneration(UnitsGeneration(units),
                             MaxGeneration(f.nuclear_generation_twh, params.max_share))
    IN  [f EXCEPT !.microreactor_units = IntOfUnits(units),
                  !.microreactor_generation_twh = generation,
                  !.microreactor_share_of_nuclear =
                       ShareOfNuclear(generation, f.nuclear_generation_twh)]

\* the body of the loop over forecasts: if scenario in microreactor_params,
\* and nothing otherwise
OverlayRow(f) ==
    IF f.scenario_name \in DOMAIN microreactor_params
    THEN LET params == microreactor_params[f.scenario_name]
             units == _calculate_microreactor_units(f.year, params.max_units)
             \* min(x, nan) is x and nan > 0 is False
             nan == "nuclear_generation_twh" \in f.nans
             generation ==
                IF nan THEN UnitsGeneration(units)
                ELSE CappedGeneration(UnitsGeneration(units),
                                      MaxGeneration(f.nuclear_generation_twh,
                                                    params.max_share))
         IN  [f EXCEPT !.microreactor_units = IntOfUnits(units),
                       !.microreactor_generation_twh = generation,
                       !.microreactor_share_of_nuclear =
                            IF nan THEN <<0, 1>>
                            ELSE ShareOfNuclear(generation, f.nuclear_generation_twh)]
    ELSE f

\* an overlay that returns the overlaid rows only, leaving out the rows of
\* the scenarios without parameters
_add_microreactor_projections_filtering(forecasts, scenarios) ==
    LET kept == SelectSeq(forecasts,
                    LAMBDA f : f.scenario_name \in DOMAIN microreactor_params)
    IN  [i \in DOMAIN kept |-> OverlayRow(kept[i])]

\* for forecast in forecasts: the loop body assigns to keys of each dict
\* and the list itself is returned
_add_microreactor_projections(forecasts, scenarios) ==
    [i \in DOMAIN forecasts |-> OverlayRow(forecasts[i])]

(***************************************************************************)
(* _store_forecasts on forecasts.nuclear_scenarios.                        *)
(***************************************************************************)
\* a write that commits row by row: the rows before the failing one stay
CommitOutcomePerRow(table, pending, fails, failed_at) ==
    IF fails THEN table \o SubSeq(pending, 1, failed_at) ELSE table \o pending

\* the table after session.commit(): every INSERT of the session's
\* transaction, or, when the flush of row number failed_at + 1 or the
\* COMMIT fails, none of them (the transaction is rolled back).  The rows
\* get fresh uuid4 primary keys and the table has no other unique key, so
\* an INSERT never replaces a row.
CommitOutcome(table, pending, fails, failed_at) ==
    IF fails THEN table ELSE table \o pending

(***************************************************************************)
(* The state: the two tables, one ForecastingService with its models, one  *)
(* generate_scenarios call at a time and the retraining task.              *)
(***************************************************************************)
VARIABLES
    db_summary,          \* processed_data.us_electricity_summary, by date
    nuclear_scenarios,   \* forecasts.nuclear_scenarios: the committed rows
    pc,                  \* where the current generate_scenarios call stands
    req,                 \* its arguments
    historical_data,     \* its local historical_data
    next_model,          \* the position of its loop over self.models
    model_forecasts,     \* its local model_forecasts
    failed,              \* the models whose failure it has logged
    ensemble_forecasts,  \* its local ensemble_forecasts
    session,             \* the rows added to the session of _store_forecasts
    result,              \* what the call gave its caller
    runs,                \* the calls made so far
    store_calls,         \* the _store_forecasts invocations of the current call
    table_at_call,       \* nuclear_scenarios as it was when the call began
    fetches,             \* the _get_historical_data invocations of the current call
    snapshot,            \* what the fetch of the current call returned
    received,            \* per model, the frame its forecast was called with
    invoked,             \* per model, the forecast invocations of the current call
    seen_trained,        \* the models whose forecast was invoked with is_trained set
    combiner_calls,      \* the _ensemble_forecasts invocations of the current call
    commit_failures,     \* the session.commit() calls of the current call that raised
    is_trained,          \* per model of self.models, its is_trained
    retrain_raises,      \* the models of self.models whose retrain raises
    retrain_pc,          \* where the retraining task stands
    retrain_data,        \* the local historical_data of _retrain_models
    retrain_next,        \* the position of its loop over self.models
    retrain_invoked,     \* per model, the retrain invocations of the pass
    retrain_failed,      \* the models whose retrain failure it has logged
    retrain_result,      \* what _retrain_models gave start_model_retraining
    passes,              \* the retraining passes started so far
    hangs,               \* the models of self.models whose forecast never resolves
    fit,                 \* a _fit_logistic call: its inputs, loop position and locals
    refresh              \* a POST /data/refresh request handled by admin.refresh_data

generate_vars == <<pc, req, historical_data, next_model, model_forecasts, failed,
                   ensemble_forecasts, session, result, runs, store_calls,
                   table_at_call, fetches, snapshot, received, invoked,
                   seen_trained, combiner_calls, commit_failures>>

retrain_vars == <<is_trained, retrain_raises, retrain_pc, retrain_data,
                  retrain_next, retrain_invoked, retrain_failed, retrain_result,
                  passes>>

other_vars == <<hangs, fit, refresh>>

vars == <<db_summary, nuclear_scenarios, generate_vars, retrain_vars, other_vars>>

NoFrame == [columns |-> {}, datetimelike |-> FALSE, rows |-> <<>>]
NoForecasts == [m \in {} |-> <<>>]
NoResult == [kind |-> "none", error |-> "", rows |-> <<>>]
Raise(error) == [kind |-> "raised", error |-> error, rows |-> <<>>]
Return(rows) == [kind |-> "returned", error |-> "", rows |-> rows]

\* no _fit_logistic call under way
NoFit == [sse |-> <<>>, position |-> 0, best_sse |-> [kind |-> "inf", value |-> 0],
          best_params |-> 0, returned |-> <<>>]

\* no refresh request under way
NoRefresh == [pc |-> "idle", cycles |-> 0, rows |-> 0, pending |-> 0, errors |-> 0]

\* the four registered models return from forecast; nothing else is under way
NoOther ==
    /\ hangs = {}
    /\ fit = NoFit
    /\ refresh = NoRefresh

\* the locals of a generate_scenarios call that has not begun
NoCall ==
    /\ pc = "idle"
    /\ req = [scenarios |-> <<>>, start_year |-> forecast_start_year,
              span |-> -1, include_microreactors |-> FALSE]
    /\ historical_data = NoFrame
    /\ next_model = 1
    /\ model_forecasts = NoForecasts
    /\ failed = {}
    /\ ensemble_forecasts = <<>>
    /\ session = <<>>
    /\ result = NoResult
    /\ runs = 0
    /\ store_calls = 0
    /\ table_at_call = <<>>
    /\ fetches = 0
    /\ snapshot = NoFrame
    /\ received = NoForecasts
    /\ invoked = [m \in ModelNames |-> 0]
    /\ seen_trained = {}
    /\ combiner_calls = 0
    /\ commit_failures = 0

\* BaseForecastingModel.__init__ for every model of self.models, and a
\* retraining task that has not begun
NoRetraining ==
    /\ is_trained = [m \in ModelNames |-> FALSE]
    /\ retrain_pc = "idle"
    /\ retrain_data = NoFrame
    /\ retrain_next = 1
    /\ retrain_invoked = [m \in ModelNames |-> 0]
    /\ retrain_failed = {}
    /\ retrain_result = NoResult
    /\ passes = 0

\* ForecastingService.__init__ registers LogisticModel, ARIMAModel,
\* ProphetModel and MLEnsembleModel: each overrides retrain
Init ==
    /\ db_summary \in HistoryTables
    /\ nuclear_scenarios = <<>>
    /\ NoCall
    /\ NoRetraining
    /\ retrain_raises = {}
    /\ NoOther

\* A caller invokes generate_scenarios with a request of requests, at most
\* max_calls times.  The first call of a behaviour takes any request; a
\* later one repeats its scenarios and years, with either value of
\* include_microreactors.
CallFrom(requests, max_calls) ==
    /\ pc \in {"idle", "done"}
    /\ runs < max_calls
    /\ \E r \in requests :
        /\ runs > 0 =>
            /\ r.scenarios = req.scenarios
            /\ r.start_year = req.start_year
            /\ r.span = req.span
        /\ req' = r
    /\ pc' = "fetch"
    /\ historical_data' = NoFrame
    /\ next_model' = 1
    /\ model_forecasts' = NoForecasts
    /\ failed' = {}
    /\ ensemble_forecasts' = <<>>
    /\ session' = <<>>
    /\ result' = NoResult
    /\ runs' = runs + 1
    /\ store_calls' = 0
    /\ table_at_call' = nuclear_scenarios
    /\ fetches' = 0
    /\ snapshot' = NoFrame
    /\ received' = NoForecasts
    /\ invoked' = [m \in ModelNames |-> 0]
    /\ seen_trained' = {}
    /\ combiner_calls' = 0
    /\ commit_failures' = 0
    /\ UNCHANGED <<db_summary, nuclear_scenarios, retrain_vars, other_vars>>

Call == CallFrom(Requests, MaxRuns)

\* historical_data = await self._get_historical_data()
Fetch ==
    /\ pc = "fetch"
    /\ LET got == _get_historical_data(db_summary)
       IN  IF got.ok
           THEN /\ historical_data' = got.frame
                /\ snapshot' = got.frame
                /\ pc' = "forecast"
                /\ result' = result
           ELSE /\ historical_data' = historical_data
                /\ snapshot' = snapshot
                /\ pc' = "done"
                /\ result' = Raise("TypeError")
    /\ fetches' = fetches + 1
    /\ UNCHANGED <<db_summary, nuclear_scenarios, req, next_model, model_forecasts,
                   failed, ensemble_forecasts, session, runs, store_calls,
                   table_at_call, received, invoked, seen_trained, combiner_calls,
                   commit_failures, retrain_vars, other_vars>>

\* a handler that lets the failure out of generate_scenarios
OnForecastErrorReraises(forecasts, model_name) ==
    [model_forecasts |-> forecasts, raises |-> TRUE]

\* except Exception as e: the failure is logged, nothing is raised and
\* model_forecasts is left as it was
OnForecastError(forecasts, model_name) ==
    [model_forecasts |-> forecasts, raises |-> FALSE]

\* a loop that a failed model ends: break in the except clause
NextModelBreaksOnFailure(position, ok) ==
    IF ok THEN position + 1 ELSE Len(ModelOrder) + 1

\* for model_name, model in self.models.items(): the try statement is the
\* whole body, so the loop goes on to the next model whether the body
\* returned or its except clause ran
NextModel(position, ok) == position + 1

\* a forecast that drops the rows without a nuclear_share from the frame it
\* is given (dropna(inplace=True))
FrameAfterForecastDropsNulls(model_name, frame) ==
    [frame EXCEPT !.rows = SelectSeq(frame.rows, LAMBDA r : r.nulls = {})]

\* the caller's frame after model.forecast: the four forecast bodies only
\* read historical_data (column access, .values, .dt.year.max(), .iloc[-1])
FrameAfterForecast(model_name, frame) == frame

\* a forecast that refuses to run on a model that was never retrained
forecast_if_trained(model, frame, first_year, last_year, scenarios) ==
    IF model.is_trained
    THEN forecast(model.name, frame, first_year, last_year, scenarios)
    ELSE {Raised}

\* model.forecast(...) on the model object: no forecast body reads
\* self.is_trained or self.model
forecast_on(model, frame, first_year, last_year, scenarios) ==
    forecast(model.name, frame, first_year, last_year, scenarios)

\* one iteration of: for model_name, model in self.models.items()
Forecast ==
    /\ pc = "forecast"
    /\ ModelOrder[next_model] \notin hangs
    /\ LET model_name == ModelOrder[next_model]
           model == [name |-> model_name, is_trained |-> is_trained[model_name]]
       IN  /\ \E out \in forecast_on(model, historical_data, req.start_year,
                                     end_year(req), req.scenarios) :
                LET position == NextModel(next_model, out.ok)
                    after == IF position > Len(ModelOrder)
                             THEN "ensemble" ELSE "forecast"
                IN  /\ next_model' = position
                    /\ IF out.ok
                       THEN /\ model_forecasts' =
                                    model_forecasts @@ (model_name :> out.rows)
                            /\ failed' = failed
                            /\ pc' = after
                            /\ result' = result
                       ELSE LET handled == OnForecastError(model_forecasts, model_name)
                            IN  /\ model_forecasts' = handled.model_forecasts
                                /\ failed' = failed \cup {model_name}
                                /\ pc' = IF handled.raises THEN "done" ELSE after
                                /\ result' = IF handled.raises
                                             THEN Raise("ModelForecastFailure")
                                             ELSE result
           /\ received' = (model_name :> historical_data) @@ received
           /\ invoked' = [invoked EXCEPT ![model_name] = @ + 1]
           /\ seen_trained' = IF model.is_trained
                              THEN seen_trained \cup {model_name}
                              ELSE seen_trained
           /\ historical_data' = FrameAfterForecast(model_name, historical_data)
    /\ UNCHANGED <<db_summary, nuclear_scenarios, req, ensemble_forecasts, session,
                   runs, store_calls, table_at_call, fetches, snapshot,
                   combiner_calls, commit_failures, retrain_vars, other_vars>>

\* a generate_scenarios that overlays every batch
AfterEnsembleAlwaysOverlays(include_microreactors) == "overlay"

\* if include_microreactors: the overlay is the next step only when the
\* caller asked for it
AfterEnsemble(include_microreactors) ==
    IF include_microreactors THEN "overlay" ELSE "store"

\* ensemble_forecasts = self._ensemble_forecasts(model_forecasts, scenarios)
Ensemble ==
    /\ pc = "ensemble"
    /\ ensemble_forecasts' = _ensemble_forecasts(model_forecasts, req.scenarios)
    /\ combiner_calls' = combiner_calls + 1
    /\ pc' = AfterEnsemble(req.include_microreactors)
    /\ UNCHANGED <<db_summary, nuclear_scenarios, req, historical_data, next_model,
                   model_forecasts, failed, session, result, runs, store_calls,
                   table_at_call, fetches, snapshot, received, invoked, seen_trained,
                   commit_failures, retrain_vars, other_vars>>

\* if include_microreactors: ensemble_forecasts =
\*     self._add_microreactor_projections(ensemble_forecasts, scenarios)
Overlay ==
    /\ pc = "overlay"
    /\ ensemble_forecasts' =
            _add_microreactor_projections(ensemble_forecasts, req.scenarios)
    /\ pc' = "store"
    /\ UNCHANGED <<db_summary, nuclear_scenarios, req, historical_data, next_model,
                   model_forecasts, failed, session, result, runs, store_calls,
                   table_at_call, fetches, snapshot, received, invoked, seen_trained,
                   combiner_calls, commit_failures, retrain_vars, other_vars>>

\* _store_forecasts up to its await: the session is opened and every row is
\* added to it
StoreAdd ==
    /\ pc = "store"
    /\ session' = ensemble_forecasts
    /\ store_calls' = store_calls + 1
    /\ pc' = "commit"
    /\ UNCHANGED <<db_summary, nuclear_scenarios, req, historical_data, next_model,
                   model_forecasts, failed, ensemble_forecasts, result, runs,
                   table_at_call, fetches, snapshot, received, invoked, seen_trained,
                   combiner_calls, commit_failures, retrain_vars, other_vars>>

\* a generate_scenarios that logs a failed store and returns the rows
GenerateAfterStoreSwallows(fails, rows) == Return(rows)

\* await self._store_forecasts(ensemble_forecasts) stands outside any try:
\* what _store_forecasts raises leaves generate_scenarios; otherwise
\* return ensemble_forecasts
GenerateAfterStore(fails, rows) ==
    IF fails THEN Raise("StorageError") ELSE Return(rows)

\* await session.commit(); on an exception session.rollback() and raise
Commit ==
    /\ pc = "commit"
    /\ \E fails \in BOOLEAN, failed_at \in 0..Len(session) :
        /\ nuclear_scenarios' = CommitOutcome(nuclear_scenarios, session, fails, failed_at)
        /\ result' = GenerateAfterStore(fails, ensemble_forecasts)
        /\ commit_failures' = commit_failures + (IF fails THEN 1 ELSE 0)
    /\ session' = <<>>
    /\ pc' = "done"
    /\ UNCHANGED <<db_summary, req, historical_data, next_model, model_forecasts,
                   failed, ensemble_forecasts, runs, store_calls, table_at_call,
                   fetches, snapshot, received, invoked, seen_trained, combiner_calls,
                   retrain_vars, other_vars>>

Next == Call \/ Fetch \/ Forecast \/ Ensemble \/ Overlay \/ StoreAdd \/ Commit

Spec == Init /\ [][Next]_vars

(***************************************************************************)
(* The models and the combiner called directly, as functions of their      *)
(* arguments: a forecast on a frame the caller built, the combiner on      *)
(* model outputs the caller built.                                         *)
(***************************************************************************)
\* the frames of the summary tables, with the date column as fetched
\* (datetime.date objects) or converted with pd.to_datetime
DatedFrames ==
    {[_get_historical_data(t).frame EXCEPT !.datetimelike = d] :
        t \in {u \in HistoryTables : _get_historical_data(u).ok}, d \in BOOLEAN}

\* the share series of a frame: as recorded (0.18, 0.19, ...), four times
\* as high (a steep rise) or mirrored (a fall)
ShareVariants == {"recorded", "steep", "falling"}

WithShares(frame, variant) ==
    [frame EXCEPT !.rows =
        [i \in DOMAIN frame.rows |->
            [frame.rows[i] EXCEPT !.nuclear_share =
                CASE variant = "recorded" -> frame.rows[i].nuclear_share
                  [] variant = "steep" -> 4 * frame.rows[i].nuclear_share
                  [] variant = "falling" -> 40000 - frame.rows[i].nuclear_share]]]

DirectFrames == {WithShares(frame, v) : frame \in DatedFrames, v \in ShareVariants}

\* the requests of the orchestrator without the overlay, and their like for
\* a single year and for a start in 2030
DirectRequests ==
    [scenarios : ScenarioLists,
     start_year : StartYears \cup {microreactor_start_year + 2},
     span : {-1, 0, MaxSpan},
     include_microreactors : {FALSE}]

\* the fields of a model's row that may hold NaN: none, the share, or the
\* other two
NanChoices == {{}, {"nuclear_share"}, {"nuclear_generation_twh", "urban_demand_twh"}}

\* rows whose first row holds NaN in the fields nans
WithNans(rows, nans) ==
    [i \in DOMAIN rows |-> IF i = 1 THEN [rows[i] EXCEPT !.nans = nans] ELSE rows[i]]

\* model outputs for a request: a model registered as prophet whose first
\* row may hold NaN, and the rows of MLEnsembleModel
DirectForecasts(r) ==
    {("prophet" :>
        WithNans(LinearRows(r.start_year, end_year(r), r.scenarios,
                            20000, 1000, "prophet_v1.0"), nans))
     @@ ("ml_ensemble" :>
            LinearRows(r.start_year, end_year(r), r.scenarios,
                       18000, 800, "ml_ensemble_v1.0")) :
        nans \in NanChoices}

DirectInit ==
    /\ db_summary = <<>>
    /\ nuclear_scenarios = <<>>
    /\ NoRetraining
    /\ retrain_raises = {}
    /\ NoOther
    /\ req \in DirectRequests
    /\ \/ /\ pc = "forecast"
          /\ historical_data \in DirectFrames
          /\ next_model = 1
          /\ model_forecasts = NoForecasts
       \/ /\ pc = "ensemble"
          /\ historical_data = NoFrame
          /\ next_model = Len(ModelOrder) + 1
          /\ model_forecasts \in DirectForecasts(req)
    /\ failed = {}
    /\ ensemble_forecasts = <<>>
    /\ session = <<>>
    /\ result = NoResult
    /\ runs = 0
    /\ store_calls = 0
    /\ table_at_call = <<>>
    /\ fetches = 0
    /\ snapshot = historical_data
    /\ received = NoForecasts
    /\ invoked = [m \in ModelNames |-> 0]
    /\ seen_trained = {}
    /\ combiner_calls = 0
    /\ commit_failures = 0

DirectNext == Forecast \/ Ensemble

DirectSpec == DirectInit /\ [][DirectNext]_vars

(***************************************************************************)
(* The retraining task: start_model_retraining and _retrain_models.        *)
(***************************************************************************)
\* a retrain that fits the model and raises when it has no observation
retrain_fits(model_name, raises, frame) ==
    IF model_name \in raises \/ frame.rows = <<>> THEN {FALSE} ELSE {TRUE}

\* await model.retrain(historical_data): TRUE when it returns, FALSE when it
\* raises.  The retrain of LogisticModel, ARIMAModel, ProphetModel and
\* MLEnsembleModel is self.is_trained = True, whatever the frame; the
\* retrain of BaseForecastingModel raises NotImplementedError, and raises
\* names the models of self.models that raise.
retrain(model_name, raises, frame) ==
    IF model_name \in raises THEN {FALSE} ELSE {TRUE}

\* lifespan: asyncio.create_task(forecasting_service.start_model_retraining()),
\* once, at startup
StartRetraining ==
    /\ retrain_pc = "idle"
    /\ retrain_pc' = "fetch"
    /\ passes' = passes + 1
    /\ UNCHANGED <<db_summary, nuclear_scenarios, generate_vars, other_vars, is_trained,
                   retrain_raises, retrain_data, retrain_next, retrain_invoked,
                   retrain_failed, retrain_result>>

\* _retrain_models: historical_data = await self._get_historical_data(),
\* outside the per-model try; what it raises leaves _retrain_models and is
\* logged by start_model_retraining
RetrainFetch ==
    /\ retrain_pc = "fetch"
    /\ LET got == _get_historical_data(db_summary)
       IN  IF got.ok
           THEN /\ retrain_data' = got.frame
                /\ retrain_pc' = "retrain"
                /\ retrain_result' = retrain_result
           ELSE /\ retrain_data' = retrain_data
                /\ retrain_pc' = "done"
                /\ retrain_result' = Raise("TypeError")
    /\ UNCHANGED <<db_summary, nuclear_scenarios, generate_vars, other_vars, is_trained,
                   retrain_raises, retrain_next, retrain_invoked, retrain_failed,
                   passes>>

\* one iteration of: for model_name, model in self.models.items(), with
\* try: await model.retrain(historical_data) / except Exception: log.
\* After the last model _retrain_models returns, and start_model_retraining
\* returns after it: there is no loop around the pass.
Retrain ==
    /\ retrain_pc = "retrain"
    /\ LET model_name == ModelOrder[retrain_next]
       IN  /\ \E ok \in retrain(model_name, retrain_raises, retrain_data) :
                /\ is_trained' = IF ok THEN [is_trained EXCEPT ![model_name] = TRUE]
                                 ELSE is_trained
                /\ retrain_failed' = IF ok THEN retrain_failed
                                     ELSE retrain_failed \cup {model_name}
           /\ retrain_invoked' = [retrain_invoked EXCEPT ![model_name] = @ + 1]
    /\ retrain_next' = retrain_next + 1
    /\ IF retrain_next = Len(ModelOrder)
       THEN /\ retrain_pc' = "done"
            /\ retrain_result' = Return(<<>>)
       ELSE /\ retrain_pc' = retrain_pc
            /\ retrain_result' = retrain_result
    /\ UNCHANGED <<db_summary, nuclear_scenarios, generate_vars, other_vars, retrain_raises,
                   retrain_data, passes>>

\* the retraining task alone, over every choice of the models whose retrain
\* raises
RetrainInit ==
    /\ db_summary \in HistoryTables
    /\ nuclear_scenarios = <<>>
    /\ NoCall
    /\ NoRetraining
    /\ retrain_raises \in SUBSET ModelNames
    /\ NoOther

RetrainNext == StartRetraining \/ RetrainFetch \/ Retrain

RetrainSpec == RetrainInit /\ [][RetrainNext]_vars

\* the event loop runs a task that is ready: each step of the retraining
\* task that can be taken is taken
RetrainFairSpec ==
    /\ RetrainInit
    /\ [][RetrainNext]_vars
    /\ WF_vars(StartRetraining)
    /\ WF_vars(RetrainFetch)
    /\ WF_vars(Retrain)

(***************************************************************************)
(* LogisticModel._fit_logistic: the grid search, as a function of the sums *)
(* of squared residuals of the candidates.  The candidates are numbered in *)
(* the order of the three nested loops over np.linspace (K, then r, then   *)
(* t0); the code has 20 * 20 * 20 of them, the model MaxGrid.              *)
(***************************************************************************)
\* a float: a number, float('inf') or NaN
Num(v) == [kind |-> "num", value |-> v]
Inf == [kind |-> "inf", value |-> 0]
NaN == [kind |-> "nan", value |-> 0]

\* a comparison that also takes a candidate as good as the best so far
LessOrEqual(a, b) ==
    /\ a.kind = "num"
    /\ b.kind = "inf" \/ (b.kind = "num" /\ a.value <= b.value)

\* sse < best_sse on floats: False when either side is NaN
Less(a, b) ==
    /\ a.kind = "num"
    /\ b.kind = "inf" \/ (b.kind = "num" /\ a.value < b.value)

\* np.sum((predicted - values) ** 2) of every candidate: numbers for a
\* history of numbers, NaN for every candidate when a share is NaN
SseProfiles ==
    {[k \in 1..MaxGrid |-> Num(f[k])] : f \in [1..MaxGrid -> 0..MaxSse]}
    \cup {[k \in 1..MaxGrid |-> NaN]}

FitInit ==
    /\ db_summary = <<>>
    /\ nuclear_scenarios = <<>>
    /\ NoCall
    /\ NoRetraining
    /\ retrain_raises = {}
    /\ hangs = {}
    /\ refresh = NoRefresh
    /\ \E profile \in SseProfiles : fit = [NoFit EXCEPT !.sse = profile]

\* _fit_logistic is entered, for the first or the second time on the same
\* history: best_sse = float('inf'); best_params = None
FitStart ==
    /\ fit.position = 0
    /\ Len(fit.returned) < 2
    /\ fit' = [fit EXCEPT !.position = 1, !.best_sse = Inf, !.best_params = 0]
    /\ UNCHANGED <<db_summary, nuclear_scenarios, generate_vars, retrain_vars,
                   hangs, refresh>>

\* the body of the innermost loop for the next candidate
FitStep ==
    /\ fit.position \in 1..MaxGrid
    /\ fit' = IF Less(fit.sse[fit.position], fit.best_sse)
              THEN [fit EXCEPT !.position = @ + 1,
                               !.best_sse = fit.sse[fit.position],
                               !.best_params = fit.position]
              ELSE [fit EXCEPT !.position = @ + 1]
    /\ UNCHANGED <<db_summary, nuclear_scenarios, generate_vars, retrain_vars,
                   hangs, refresh>>

\* return best_params
FitReturn ==
    /\ fit.position = MaxGrid + 1
    /\ fit' = [fit EXCEPT !.position = 0,
                          !.returned = Append(@, fit.best_params)]
    /\ UNCHANGED <<db_summary, nuclear_scenarios, generate_vars, retrain_vars,
                   hangs, refresh>>

FitNext == FitStart \/ FitStep \/ FitReturn

FitSpec == FitInit /\ [][FitNext]_vars

(***************************************************************************)
(* The service with both of its tasks: the retraining task started at      *)
(* startup and one generate_scenarios call, their steps interleaved at the *)
(* awaits.                                                                 *)
(***************************************************************************)
\* the requests with at most one scenario
SystemRequests == {r \in Requests : Len(r.scenarios) <= 1}

SystemCall == CallFrom(SystemRequests, 1)

SystemNext ==
    \/ SystemCall \/ Fetch \/ Forecast \/ Ensemble \/ Overlay \/ StoreAdd \/ Commit
    \/ StartRetraining \/ RetrainFetch \/ Retrain

SystemSpec == Init /\ [][SystemNext]_vars

(***************************************************************************)
(* One generate_scenarios call on a service of which one model's forecast  *)
(* coroutine may never resolve.  The four shipped forecast bodies contain  *)
(* no await and always end; hangs stands for a model replaced or extended  *)
(* by one that awaits something that never completes.                      *)
(***************************************************************************)
\* forecasts = await model.forecast(...) on a model of hangs: the call is
\* made and generate_scenarios stays suspended at the await, which has no
\* asyncio.wait_for or other timeout around it
ForecastHangs ==
    /\ pc = "forecast"
    /\ ModelOrder[next_model] \in hangs
    /\ pc' = "awaiting"
    /\ received' = (ModelOrder[next_model] :> historical_data) @@ received
    /\ invoked' = [invoked EXCEPT ![ModelOrder[next_model]] = @ + 1]
    /\ UNCHANGED <<db_summary, nuclear_scenarios, req, historical_data, next_model,
                   model_forecasts, failed, ensemble_forecasts, session, result,
                   runs, store_calls, table_at_call, fetches, snapshot,
                   seen_trained, combiner_calls, commit_failures, retrain_vars,
                   other_vars>>

\* the service with no hanging model or with one
HangInit ==
    /\ db_summary \in HistoryTables
    /\ nuclear_scenarios = <<>>
    /\ NoCall
    /\ NoRetraining
    /\ retrain_raises = {}
    /\ hangs \in {{}} \cup {{m} : m \in ModelNames}
    /\ fit = NoFit
    /\ refresh = NoRefresh

HangNext ==
    \/ SystemCall \/ Fetch \/ Forecast \/ ForecastHangs \/ Ensemble \/ Overlay
    \/ StoreAdd \/ Commit

\* the event loop runs every coroutine that is ready to continue
HangFairSpec == HangInit /\ [][HangNext]_vars /\ WF_vars(HangNext)

(***************************************************************************)
(* POST /generate: the endpoint generate_forecast around one               *)
(* generate_scenarios call on a ForecastingService of its own, and the     *)
(* background task it schedules.                                           *)
(***************************************************************************)
\* the requests ForecastRequest accepts: start_year and end_year each within
\* 2025..2050 (ge, le); the two are not compared with each other
EndpointRequests ==
    {r \in Requests : /\ r.start_year \in forecast_start_year..forecast_end_year
                      /\ end_year(r) \in forecast_start_year..forecast_end_year}

\* forecasts = await forecasting_service.generate_scenarios(...)
PostGenerate == CallFrom(EndpointRequests, 1)

\* what generate_forecast does with the outcome of generate_scenarios:
\* background_tasks.add_task(store_forecasts, forecasts, db) and the
\* ForecastResponse, or, from except Exception, HTTPException 500 with no
\* task left to run
Respond ==
    /\ pc = "done"
    /\ pc' = IF result.kind = "returned" THEN "responded" ELSE "error"
    /\ UNCHANGED <<db_summary, nuclear_scenarios, req, historical_data, next_model,
                   model_forecasts, failed, ensemble_forecasts, session, result,
                   runs, store_calls, table_at_call, fetches, snapshot, received,
                   invoked, seen_trained, combiner_calls, commit_failures,
                   retrain_vars, other_vars>>

\* the background task store_forecasts(forecasts, db), run once the
\* response has been sent: db.add(NuclearScenario(**forecast)) for every
\* row of the list generate_scenarios returned, then await db.commit(); on
\* an exception db.rollback() and raise
BackgroundStore ==
    /\ pc = "responded"
    /\ \E fails \in BOOLEAN, failed_at \in 0..Len(result.rows) :
        /\ nuclear_scenarios' =
                CommitOutcome(nuclear_scenarios, result.rows, fails, failed_at)
        /\ commit_failures' = commit_failures + (IF fails THEN 1 ELSE 0)
    /\ pc' = "stored"
    /\ UNCHANGED <<db_summary, req, historical_data, next_model, model_forecasts,
                   failed, ensemble_forecasts, session, result, runs, store_calls,
                   table_at_call, fetches, snapshot, received, invoked,
                   seen_trained, combiner_calls, retrain_vars, other_vars>>

EndpointNext ==
    \/ PostGenerate \/ Fetch \/ Forecast \/ Ensemble \/ Overlay \/ StoreAdd
    \/ Commit \/ Respond \/ BackgroundStore

EndpointSpec == Init /\ [][EndpointNext]_vars

(***************************************************************************)
(* POST /data/refresh: admin.refresh_data awaits _collect_eia_data(), the  *)
(* coroutine the periodic collection also runs as a task.  Its body is     *)
(* while True with no break and no return, and except Exception catches    *)
(* what a pass raises, so the await in refresh_data never yields a value   *)
(* or an exception: the three awaits after it, the success response and    *)
(* the HTTPException of the handler have no step here because no           *)
(* execution reaches them.  refresh.cycles, refresh.rows and               *)
(* refresh.errors count the passes, the stored records and the logged      *)
(* failures up to MaxCollections and stay there afterwards.                *)
(***************************************************************************)
\* a tally that stops growing at MaxCollections
Tally(n) == IF n > MaxCollections THEN MaxCollections ELSE n

\* a client sends POST /data/refresh: refresh_data enters its try and
\* calls data_collector._collect_eia_data()
PostRefresh ==
    /\ refresh.pc = "idle"
    /\ refresh' = [refresh EXCEPT !.pc = "eia_get"]
    /\ UNCHANGED <<db_summary, nuclear_scenarios, generate_vars, retrain_vars,
                   hangs, fit>>

\* data = await self.eia_client.get_electricity_data(): the processed
\* records of the response, or an exception of the request, of
\* raise_for_status or of the parsing, which except Exception logs
EiaGet ==
    /\ refresh.pc = "eia_get"
    /\ \/ \E records \in 0..MaxRecords :
            refresh' = [refresh EXCEPT !.pc = "eia_store", !.pending = records]
       \/ refresh' = [refresh EXCEPT !.pc = "eia_sleep",
                                     !.errors = Tally(@ + 1)]
    /\ UNCHANGED <<db_summary, nuclear_scenarios, generate_vars, retrain_vars,
                   hangs, fit>>

\* await self._store_eia_data(data): the records are committed, or the
\* commit fails, is rolled back and re-raised to the except Exception of
\* the loop, which logs it
EiaStore ==
    /\ refresh.pc = "eia_store"
    /\ \E fails \in BOOLEAN :
        refresh' = [refresh EXCEPT
                        !.pc = "eia_sleep",
                        !.pending = 0,
                        !.rows = IF fails THEN @ ELSE Tally(@ + refresh.pending),
                        !.errors = IF fails THEN Tally(@ + 1) ELSE @]
    /\ UNCHANGED <<db_summary, nuclear_scenarios, generate_vars, retrain_vars,
                   hangs, fit>>

\* await asyncio.sleep(settings.eia_refresh_interval * 60), then the next
\* iteration of while True
EiaSleep ==
    /\ refresh.pc = "eia_sleep"
    /\ refresh' = [refresh EXCEPT !.pc = "eia_get", !.cycles = Tally(@ + 1)]
    /\ UNCHANGED <<db_summary, nuclear_scenarios, generate_vars, retrain_vars,
                   hangs, fit>>

RefreshInit ==
    /\ db_summary = <<>>
    /\ nuclear_scenarios = <<>>
    /\ NoCall
    /\ NoRetraining
    /\ retrain_raises = {}
    /\ NoOther

RefreshNext == PostRefresh \/ EiaGet \/ EiaStore \/ EiaSleep

\* the event loop runs the handler whenever it is ready to continue: the
\* HTTP client of EIAClient has a timeout and the sleep ends
RefreshFairSpec ==
    /\ RefreshInit
    /\ [][RefreshNext]_vars
    /\ WF_vars(PostRefresh)
    /\ WF_vars(EiaGet)
    /\ WF_vars(EiaStore)
    /\ WF_vars(EiaSleep)

(***************************************************************************)
(* Properties.                                                             *)
(***************************************************************************)
\* the loop over self.models of the current call has ended
ModelsResolved == next_model > Len(ModelOrder)

\* _add_microreactor_projections has run in the current call
OverlayApplied == req.include_microreactors /\ pc \in {"store", "commit", "done"}

\* the rows of a sequence
RowsOf(rows) == {rows[i] : i \in DOMAIN rows}

\* the rows of a model's list that belong to a cell
CellRows(rows, scenario, year) ==
    {f \in RowsOf(rows) : f.scenario_name = scenario /\ f.year = year}

RECURSIVE SumOver(_, _)
\* the sum of g[m] over the models m of a set
SumOver(models, g) ==
    IF models = {} THEN 0
    ELSE LET m == CHOOSE x \in models : TRUE
         IN  g[m] + SumOver(models \ {m}, g)

\* the claimed weights, in percent
ClaimedWeight(m) ==
    CASE m = "logistic" -> 30 [] m = "arima" -> 25
      [] m = "prophet" -> 25 [] m = "ml_ensemble" -> 20

\* the sum over the given models that hold a row of the cell of that row's
\* field times the model's weight
CellSum(models, scenario, year, field) ==
    LET present == {m \in models : CellRows(model_forecasts[m], scenario, year) # {}}
    IN  SumOver(present,
                [m \in present |->
                    ((CHOOSE f \in CellRows(model_forecasts[m], scenario, year) : TRUE)[field]
                        * ClaimedWeight(m)) \div 100])

\* C1: a model whose forecast raises never makes generate_scenarios raise;
\* once the loop has ended model_forecasts holds exactly the models that did
\* not raise, each with the rows its forecast returned; and every returned
\* row is the weighted sum over the models that did not raise, with a row
\* for each of their cells inside the configured years.
C1_FailingModelsAreExcluded ==
    /\ result.error # "ModelForecastFailure"
    /\ (pc = "forecast" /\ failed # {}) => result.kind = "none"
    /\ ModelsResolved =>
        /\ DOMAIN model_forecasts = ModelNames \ failed
        /\ \A m \in ModelNames \ failed :
              Returned(model_forecasts[m]) \in
                  forecast(m, historical_data, req.start_year, end_year(req),
                           req.scenarios)
    /\ result.kind = "returned" =>
        /\ \A f \in RowsOf(result.rows) :
              f.nuclear_share =
                  CellSum(ModelNames \ failed, f.scenario_name, f.year, "nuclear_share")
        /\ \A m \in ModelNames \ failed : \A g \in RowsOf(model_forecasts[m]) :
              g.year \in forecast_start_year..forecast_end_year =>
                  \E f \in RowsOf(result.rows) :
                      f.scenario_name = g.scenario_name /\ f.year = g.year

\* a call that returned rows although models had failed
C1_Witness ==
    /\ pc = "done"
    /\ result.kind = "returned"
    /\ result.rows # <<>>
    /\ failed # {}
    /\ failed # ModelNames

\* C2: every field of every ensemble row is the sum, over exactly the models
\* that produced a row for the cell, of the model's value times its weight
\* 0.3 / 0.25 / 0.25 / 0.2; the weights are not renormalized.
C2_WeightedSumOfPresentModels ==
    \A f \in RowsOf(ensemble_forecasts) :
        \A field \in {"nuclear_share", "nuclear_generation_twh", "urban_demand_twh"} :
            f[field] = CellSum(DOMAIN model_forecasts, f.scenario_name, f.year, field)

\* an ensemble row of a cell for which some model is absent
C2_Witness ==
    /\ pc = "store"
    /\ \E f \in RowsOf(ensemble_forecasts) :
          /\ f.nuclear_share > 0
          /\ \E m \in ModelNames :
                \/ m \notin DOMAIN model_forecasts
                \/ CellRows(model_forecasts[m], f.scenario_name, f.year) = {}

\* the (scenario, year) cells of the successful models' outputs
InputCells ==
    {<<f.scenario_name, f.year>> :
        f \in UNION {RowsOf(model_forecasts[m]) : m \in DOMAIN model_forecasts}}

\* C3: the combiner returns exactly one row for every distinct (scenario,
\* year) of the successful models' outputs and no row for any other cell.
C3_OneRowPerInputCell ==
    pc \in {"overlay", "store", "commit"} =>
        /\ \A c \in InputCells :
              Cardinality({i \in DOMAIN ensemble_forecasts :
                              /\ ensemble_forecasts[i].scenario_name = c[1]
                              /\ ensemble_forecasts[i].year = c[2]}) = 1
        /\ \A f \in RowsOf(ensemble_forecasts) :
              <<f.scenario_name, f.year>> \in InputCells

\* the claimed max_share, in percent, and max_units
ClaimedMaxShare(scenario) ==
    CASE scenario = "conservative" -> 10 [] scenario = "base" -> 20
      [] scenario = "aggressive" -> 30

ClaimedMaxUnits(scenario) ==
    CASE scenario = "conservative" -> 3000 [] scenario = "base" -> 12000
      [] scenario = "aggressive" -> 40000

OverlaidScenarios == {"conservative", "base", "aggressive"}

\* C4: after the overlay every row of a scenario with overlay parameters has
\* microreactor_generation_twh <= nuclear_generation_twh * max_share.
C4_GenerationWithinCap ==
    OverlayApplied =>
        \A f \in RowsOf(ensemble_forecasts) :
            f.scenario_name \in OverlaidScenarios =>
                f.microreactor_generation_twh * 100 <=
                    f.nuclear_generation_twh * ClaimedMaxShare(f.scenario_name)

\* an overlaid row whose generation the cap cut down, and one it did not
C4_Witness ==
    /\ OverlayApplied
    /\ \E f \in RowsOf(ensemble_forecasts) :
          /\ f.scenario_name \in OverlaidScenarios
          /\ f.microreactor_generation_twh > 0
          /\ f.microreactor_generation_twh < UnitsGeneration(
                _calculate_microreactor_units(f.year, ClaimedMaxUnits(f.scenario_name)))
    /\ \E f \in RowsOf(ensemble_forecasts) :
          /\ f.scenario_name \in OverlaidScenarios
          /\ f.microreactor_generation_twh > 0
          /\ f.microreactor_generation_twh * 100 <
                f.nuclear_generation_twh * ClaimedMaxShare(f.scenario_name)

\* C5: after the overlay every row has 0 <= microreactor_generation_twh <=
\* nuclear_generation_twh, and microreactor_share_of_nuclear is their
\* quotient when nuclear_generation_twh > 0 and 0 otherwise, within [0, 1].
C5_ShareIsGuardedQuotient ==
    OverlayApplied =>
        \A f \in RowsOf(ensemble_forecasts) :
            LET share == f.microreactor_share_of_nuclear
            IN  /\ 0 <= f.microreactor_generation_twh
                /\ f.microreactor_generation_twh <= f.nuclear_generation_twh
                /\ share[2] > 0
                /\ 0 <= share[1]
                /\ share[1] <= share[2]
                /\ IF f.nuclear_generation_twh > 0
                   THEN \/ /\ share[1] = f.microreactor_generation_twh
                           /\ share[2] = f.nuclear_generation_twh
                        \/ /\ share[1] = 0
                           /\ f.microreactor_generation_twh = 0
                   ELSE share[1] = 0

\* an overlaid row with a positive share
C5_Witness ==
    /\ OverlayApplied
    /\ pc = "commit"
    /\ \E f \in RowsOf(ensemble_forecasts) :
          /\ f.microreactor_generation_twh > 0
          /\ f.microreactor_share_of_nuclear[1] > 0
          /\ f.microreactor_share_of_nuclear[2] = f.nuclear_generation_twh

\* C6: the microreactor_units stored on a row of a scenario with overlay
\* parameters is 0 for a year below 2028 and max_units for 2050.
C6_UnitsAtStartAndEnd ==
    OverlayApplied =>
        \A f \in RowsOf(ensemble_forecasts) :
            f.scenario_name \in OverlaidScenarios =>
                /\ f.year < 2028 => f.microreactor_units = 0
                /\ f.year = 2050 =>
                      f.microreactor_units = ClaimedMaxUnits(f.scenario_name)

\* an overlaid batch holding the row of 2050 of two scenarios
C6_Witness ==
    /\ OverlayApplied
    /\ \E f, g \in RowsOf(ensemble_forecasts) :
          /\ f.year = 2050 /\ f.scenario_name = "aggressive"
          /\ f.microreactor_units = 40000
          /\ g.year = 2050 /\ g.scenario_name = "conservative"
          /\ g.microreactor_units = 3000

\* C7: a committed write of a batch into a table that holds exactly that
\* batch leaves the table as it was: one row per (scenario_name, year,
\* model_version), the row count unchanged.
C7_SameBatchTwiceKeepsTable ==
    (/\ pc = "done"
     /\ result.kind = "returned"
     /\ table_at_call = result.rows) =>
        /\ nuclear_scenarios = table_at_call
        /\ \A i, j \in DOMAIN nuclear_scenarios :
              (/\ nuclear_scenarios[i].scenario_name = nuclear_scenarios[j].scenario_name
               /\ nuclear_scenarios[i].year = nuclear_scenarios[j].year
               /\ nuclear_scenarios[i].model_version = nuclear_scenarios[j].model_version)
                  => i = j

\* C8: _store_forecasts is all-or-nothing: until it has finished the table
\* is as the call found it, and once it has finished the table holds either
\* the whole batch after the rows it held or nothing of the batch; a failed
\* write leaves nothing.
C8_StoreIsAllOrNothing ==
    /\ pc \in {"fetch", "forecast", "ensemble", "overlay", "store", "commit"} =>
          nuclear_scenarios = table_at_call
    /\ pc = "done" =>
          \/ nuclear_scenarios = table_at_call
          \/ /\ result.kind = "returned"
             /\ nuclear_scenarios = table_at_call \o ensemble_forecasts
    /\ result.error = "StorageError" => nuclear_scenarios = table_at_call

\* a write of several rows that failed
C8_Witness ==
    /\ pc = "done"
    /\ result.error = "StorageError"
    /\ Len(ensemble_forecasts) > 1
    /\ nuclear_scenarios = table_at_call

\* C9: a call with an empty scenario set makes no call to the persistence
\* collaborator and returns an empty sequence.
C9_EmptyScenariosNoPersistence ==
    req.scenarios = <<>> =>
        /\ store_calls = 0
        /\ session = <<>>
        /\ result.kind = "returned" => result.rows = <<>>

\* C10: with an empty history a call that asks for at least one scenario
\* and year raises NoHistoricalData and neither returns nor persists rows.
C10_EmptyHistoryRaises ==
    (pc = "done" /\ db_summary = <<>> /\ req.scenarios # <<>> /\ req.span >= 0) =>
        /\ result = Raise("NoHistoricalData")
        /\ nuclear_scenarios = table_at_call


\* the scenario names with coefficients of their own
RecognizedScenarios == {"conservative", "base", "aggressive"}

\* a scenario list with base in place of every name outside the three
BaseForUnrecognized(scenarios) ==
    [i \in DOMAIN scenarios |->
        IF scenarios[i] \in RecognizedScenarios THEN scenarios[i] ELSE "base"]

\* the numbers of a projection row
RowValues(row) ==
    <<row.year, row.nuclear_share, row.nuclear_generation_twh, row.urban_demand_twh,
      row.nans>>

\* a frame a model can fit: dates as datetimes, at least one observation and
\* no missing share
FittableFrame(frame) ==
    /\ frame.datetimelike
    /\ frame.rows # <<>>
    /\ NullShares(frame) = {}

\* C11: a scenario name outside conservative, base and aggressive is
\* forecast as base: on a fittable frame and a non-empty year range, a model
\* that fails for the request also fails for the request with base in place
\* of the name, and a model that returns gives for the name the values it
\* gives for base.
C11_UnrecognizedScenarioForecastsAsBase ==
    \A m \in DOMAIN received :
        (FittableFrame(received[m]) /\ req.span >= 0) =>
            LET as_base == forecast(m, received[m], req.start_year, end_year(req),
                                    BaseForUnrecognized(req.scenarios))
            IN  IF m \in failed
                THEN Raised \in as_base
                ELSE \E out \in as_base :
                        /\ out.ok
                        /\ Len(out.rows) = Len(model_forecasts[m])
                        /\ \A i \in DOMAIN out.rows :
                             RowValues(out.rows[i]) = RowValues(model_forecasts[m][i])


\* C12: the overlay raises nothing and leaves the three microreactor fields
\* of a row at zero when its scenario has no overlay parameters, while the
\* rows of the scenarios with parameters in the same batch are overlaid: from
\* the microreactor start year on they carry units.
C12_UnrecognizedRowsKeepZero ==
    OverlayApplied =>
        /\ result.kind = "raised" => result.error \in {"TypeError", "StorageError"}
        /\ \A i \in DOMAIN ensemble_forecasts :
            LET row == ensemble_forecasts[i]
            IN  IF row.scenario_name \in DOMAIN microreactor_params
                THEN row.year >= microreactor_start_year =>
                        /\ row.microreactor_units > 0
                        /\ row.microreactor_generation_twh > 0
                ELSE /\ row.microreactor_units = 0
                     /\ row.microreactor_generation_twh = 0
                     /\ row.microreactor_share_of_nuclear = <<0, 1>>

\* an overlaid batch with a row of a scenario without parameters, left at
\* zero, and a row of a scenario with parameters carrying units
C12_Witness ==
    /\ OverlayApplied
    /\ \E i, j \in DOMAIN ensemble_forecasts :
        /\ ensemble_forecasts[i].scenario_name \notin DOMAIN microreactor_params
        /\ ensemble_forecasts[i].year >= microreactor_start_year
        /\ ensemble_forecasts[i].microreactor_units = 0
        /\ ensemble_forecasts[j].scenario_name \in DOMAIN microreactor_params
        /\ ensemble_forecasts[j].microreactor_units > 0


\* C13: a generate_scenarios call fetches the history once, every model it
\* invokes is called with the frame that fetch returned, and no forecast
\* changes the frame: the call's historical_data stays the fetched snapshot.
C13_OneFetchOneSnapshot ==
    /\ fetches <= 1
    /\ pc \notin {"idle", "fetch"} => fetches = 1
    /\ historical_data = snapshot
    /\ \A m \in DOMAIN received : received[m] = snapshot

\* all four models were invoked on a fetched history that has observations,
\* one of them without a nuclear_share
C13_Witness ==
    /\ DOMAIN received = ModelNames
    /\ fetches = 1
    /\ NullShares(snapshot) # {}
    /\ Len(snapshot.rows) > 1


\* the models whose invocation has returned or raised
Resolved == DOMAIN model_forecasts \cup failed

\* C14: in a run whose history fetch returned, each registered model is
\* invoked exactly once, whether the models before it returned or raised,
\* and the combiner is invoked once, only after every invocation has
\* resolved.
C14_EveryModelOnceThenCombiner ==
    /\ \A m \in ModelNames : invoked[m] <= 1
    /\ \A m \in ModelNames : invoked[m] = 1 <=> m \in Resolved
    /\ combiner_calls <= 1
    /\ combiner_calls = 1 => Resolved = ModelNames
    /\ (pc = "done" /\ result.error # "TypeError") =>
            /\ combiner_calls = 1
            /\ \A m \in ModelNames : invoked[m] = 1

\* the combiner has run after models that raised and models that returned,
\* a model that raised coming first
C14_Witness ==
    /\ combiner_calls = 1
    /\ "logistic" \in failed
    /\ "ml_ensemble" \in DOMAIN model_forecasts
    /\ \A m \in ModelNames : invoked[m] = 1


\* C15: when the write of a call fails, generate_scenarios gives its caller
\* the error and no rows, it has made one storage attempt and no more, and
\* the table is as it was when the call began.
C15_FailedStoreRaisesOnce ==
    /\ store_calls <= 1
    /\ commit_failures <= store_calls
    /\ commit_failures > 0 =>
        /\ pc = "done"
        /\ result = Raise("StorageError")
        /\ store_calls = 1
        /\ nuclear_scenarios = table_at_call

\* the write of a batch of rows has failed, on a table that held rows
C15_Witness ==
    /\ commit_failures = 1
    /\ ensemble_forecasts # <<>>
    /\ table_at_call # <<>>
    /\ pc = "done"


\* model outputs without the rows that hold a NaN or infinite field
FiniteRows(forecasts) ==
    [m \in DOMAIN forecasts |-> SelectSeq(forecasts[m], LAMBDA row : row.nans = {})]

C17_NoNullShareReachesAModel ==
    (req.scenarios # <<>> /\ req.span >= 0) =>
        \A m \in DOMAIN received : NullShares(received[m]) = {}


\* C18: in a retraining pass that has its history, retrain is invoked once
\* on every registered model whichever of them raise, the pass returns
\* without raising, and on an empty history no model's retrain raises but
\* those that raise on every history.
C18_RetrainFailuresAreIsolated ==
    /\ \A m \in ModelNames : retrain_invoked[m] <= 1
    /\ retrain_failed \subseteq retrain_raises
    /\ (retrain_pc = "done" /\ retrain_result.error # "TypeError") =>
        /\ retrain_result = Return(<<>>)
        /\ \A m \in ModelNames : retrain_invoked[m] = 1
        /\ retrain_failed = retrain_raises
        /\ \A m \in ModelNames : is_trained[m] <=> m \notin retrain_raises

\* a pass on an empty history has ended after the retrain of the first and
\* of the third model raised and the other two were retrained
C18_Witness ==
    /\ retrain_pc = "done"
    /\ retrain_data.rows = <<>>
    /\ retrain_failed = {"logistic", "prophet"}
    /\ is_trained["arima"] /\ is_trained["ml_ensemble"]
    /\ retrain_result = Return(<<>>)

\* C19: after startup a retraining pass begins again and again.
C19_RetrainingRecurs == []<>(retrain_pc = "fetch")

\* what a model that was never retrained gives for the request of the call
\* on the history the call fetched
UntrainedOutcomes(m) ==
    forecast_on([name |-> m, is_trained |-> FALSE], snapshot, req.start_year,
                end_year(req), req.scenarios)

\* C20: however the steps of a retraining pass fall between the steps of a
\* generate_scenarios call, every model gives the call what it gives when
\* it was never retrained, and the call returns the rows combined from that.
C20_RetrainingLeavesForecastsAlone ==
    /\ \A m \in failed : Raised \in UntrainedOutcomes(m)
    /\ \A m \in DOMAIN model_forecasts :
            Returned(model_forecasts[m]) \in UntrainedOutcomes(m)
    /\ result.kind = "returned" =>
            result.rows =
                LET combined == _ensemble_forecasts(model_forecasts, req.scenarios)
                IN  IF req.include_microreactors
                    THEN _add_microreactor_projections(combined, req.scenarios)
                    ELSE combined

\* a call has returned rows whose third model was invoked before the pass
\* retrained it and whose fourth model after, and the pass has ended
C20_Witness ==
    /\ pc = "done"
    /\ result.kind = "returned"
    /\ result.rows # <<>>
    /\ "ml_ensemble" \in seen_trained
    /\ "prophet" \notin seen_trained
    /\ retrain_pc = "done"


\* 0.8 / 1.0 / 1.2, in tenths
ClaimedMultiplier(scenario) ==
    CASE scenario = "conservative" -> 8
      [] scenario = "base" -> 10
      [] scenario = "aggressive" -> 12

\* clamp_to_[0,1]((last_share + slope * (year - last_historical_year))
\*                * multiplier), slope being the quotient num / den
ClaimedTrendShare(last_share, num, den, years_ahead, scenario) ==
    LET value == ((last_share * den + num * years_ahead)
                    * ClaimedMultiplier(scenario)) \div (den * 10)
    IN  IF value < 0 THEN 0 ELSE IF value > 100000 THEN 100000 ELSE value

\* the history [(2023, 0.18), (2024, 0.19)] with scenario base and the one
\* year 2030
TrendExample ==
    /\ "arima" \in DOMAIN received
    /\ received["arima"].datetimelike
    /\ [i \in DOMAIN received["arima"].rows |->
            <<received["arima"].rows[i].date, received["arima"].rows[i].nuclear_share,
              received["arima"].rows[i].nulls>>]
         = <<<<2023, 18000, {}>>, <<2024, 19000, {}>>>>
    /\ req.scenarios = <<"base">>
    /\ req.start_year = 2030
    /\ req.span = 0

\* C21: on a non-empty history ARIMAModel.forecast gives each cell the
\* share clamp((last_share + slope * (year - last year)) * multiplier) with
\* the least-squares slope against the observation index: called with
\* dates as datetimes, a history without missing shares, scenarios of the
\* three and years to forecast, it returns, and returns these shares, all
\* of them in [0, 1];
\* for [(2023, 0.18), (2024, 0.19)], base and 2030 it returns one row, of
\* share 0.25.
C21_TrendExtrapolation ==
    LET frame == received["arima"]
        rows == model_forecasts["arima"]
        slope == ArimaTrend(frame)
    IN  /\ ( /\ "arima" \in DOMAIN received
             /\ FittableFrame(frame)
             /\ req.scenarios # <<>> /\ req.span >= 0
             /\ \A i \in DOMAIN req.scenarios : req.scenarios[i] \in RecognizedScenarios )
            => /\ "arima" \in DOMAIN model_forecasts
               /\ \A i \in DOMAIN rows :
                    /\ rows[i].nuclear_share >= 0
                    /\ rows[i].nuclear_share <= 100000
                    /\ rows[i].nuclear_share =
                            ClaimedTrendShare(frame.rows[Len(frame.rows)].nuclear_share,
                                              slope[1], slope[2],
                                              rows[i].year - LastHistoricalYear(frame),
                                              rows[i].scenario_name)
        /\ (TrendExample /\ "arima" \in DOMAIN model_forecasts)
            => /\ Len(rows) = 1
               /\ rows[1].year = 2030
               /\ rows[1].nuclear_share = 25000


\* C22: on a history of numbers _fit_logistic returns a candidate of the
\* grid whose sum of squared residuals is minimal over all candidates, the
\* first such candidate in iteration order, and a second run on the same
\* history returns the same candidate.
C22_FirstMinimalCandidate ==
    (\A k \in DOMAIN fit.sse : fit.sse[k].kind = "num") =>
        /\ \A i \in DOMAIN fit.returned :
            LET best == fit.returned[i]
            IN  /\ best \in 1..MaxGrid
                /\ \A k \in 1..MaxGrid : fit.sse[best].value <= fit.sse[k].value
                /\ \A k \in 1..(best - 1) : fit.sse[k].value > fit.sse[best].value
        /\ Len(fit.returned) = 2 => fit.returned[1] = fit.returned[2]

\* two runs have returned on a history whose minimal sum belongs to two
\* candidates, neither of them the first of the grid
C22_Witness ==
    /\ Len(fit.returned) = 2
    /\ fit.returned[1] > 1
    /\ \E k \in (fit.returned[1] + 1)..MaxGrid : fit.sse[k] = fit.sse[fit.returned[1]]


\* C23: on the non-empty frame that _get_historical_data builds,
\* LogisticModel.forecast completes (and its rows carry the compounded
\* demand and share times demand): in a call with scenarios and years to
\* forecast on a history without missing shares, the logistic model does
\* not fail.
C23_LogisticCompletesOnFetchedHistory ==
    ( /\ "logistic" \in DOMAIN received
      /\ received["logistic"].rows # <<>>
      /\ NullShares(received["logistic"]) = {}
      /\ req.scenarios # <<>>
      /\ req.span >= 0 )
        => "logistic" \notin failed


\* C24: the sequence generate_scenarios returns never holds two rows with
\* the same scenario_name, year and model_version, whatever list of names
\* the request carries.
C24_ReturnedRowsHaveDistinctKeys ==
    result.kind = "returned" =>
        \A i, j \in DOMAIN result.rows :
            ( /\ result.rows[i].scenario_name = result.rows[j].scenario_name
              /\ result.rows[i].year = result.rows[j].year
              /\ result.rows[i].model_version = result.rows[j].model_version )
                => i = j


\* the three microreactor fields of every row of rows are zero
MicroreactorFieldsZero(rows) ==
    \A i \in DOMAIN rows :
        /\ rows[i].microreactor_units = 0
        /\ rows[i].microreactor_generation_twh = 0
        /\ rows[i].microreactor_share_of_nuclear = <<0, 1>>

\* the rows the current call has committed
PersistedByCall ==
    SubSeq(nuclear_scenarios, Len(table_at_call) + 1, Len(nuclear_scenarios))

\* C25: every row the combiner produces has the three microreactor fields
\* at zero, and with include_microreactors false so has every row the call
\* returns and every row it persists.
C25_MicroreactorFieldsStartAtZero ==
    /\ pc = "overlay" => MicroreactorFieldsZero(ensemble_forecasts)
    /\ ~req.include_microreactors =>
        /\ MicroreactorFieldsZero(ensemble_forecasts)
        /\ MicroreactorFieldsZero(session)
        /\ MicroreactorFieldsZero(result.rows)
        /\ MicroreactorFieldsZero(PersistedByCall)

\* a call without the overlay has returned and persisted rows of a scenario
\* with overlay parameters, for years from the microreactor start year on
C25_Witness ==
    /\ ~req.include_microreactors
    /\ pc = "done"
    /\ result.kind = "returned"
    /\ PersistedByCall = result.rows
    /\ \E i \in DOMAIN result.rows :
        /\ result.rows[i].scenario_name \in DOMAIN microreactor_params
        /\ result.rows[i].year >= microreactor_start_year


\* the fields of a row that the overlay has no business with
FieldsOutsideOverlay(row) ==
    <<row.scenario_name, row.year, row.nuclear_share, row.nuclear_generation_twh,
      row.urban_demand_twh, row.model_version, row.nans>>

\* C26: the overlay changes nothing but the three microreactor fields: when
\* it has run, the batch has the rows the combiner produced, as many and in
\* the same order, each with its scenario_name, year, nuclear_share,
\* nuclear_generation_twh, urban_demand_twh and model_version as before.
C26_OverlayKeepsOtherFields ==
    (req.include_microreactors /\ pc = "store") =>
        LET before == _ensemble_forecasts(model_forecasts, req.scenarios)
        IN  /\ Len(ensemble_forecasts) = Len(before)
            /\ \A i \in DOMAIN before :
                FieldsOutsideOverlay(ensemble_forecasts[i])
                    = FieldsOutsideOverlay(before[i])

\* the overlay has run on a batch of two scenarios, the first without
\* overlay parameters, and has written units into a row of the second
C26_Witness ==
    /\ req.include_microreactors
    /\ pc = "store"
    /\ Len(ensemble_forecasts) > 1
    /\ ensemble_forecasts[1].scenario_name \notin DOMAIN microreactor_params
    /\ ensemble_forecasts[Len(ensemble_forecasts)].microreactor_units > 0


\* the names of a list are distinct
IsScenarioSet(scenarios) ==
    \A i, j \in DOMAIN scenarios : scenarios[i] = scenarios[j] => i = j

\* rows holds exactly one row for each scenario of the request and each
\* year of start_year..end_year, and no other row
OneRowPerRequestedCell(rows) ==
    /\ \A i \in DOMAIN req.scenarios :
        \A year \in req.start_year..end_year(req) :
            Cardinality({k \in DOMAIN rows :
                            /\ rows[k].scenario_name = req.scenarios[i]
                            /\ rows[k].year = year}) = 1
    /\ \A k \in DOMAIN rows :
        /\ rows[k].year \in req.start_year..end_year(req)
        /\ \E i \in DOMAIN req.scenarios : rows[k].scenario_name = req.scenarios[i]

\* C27: for a set of scenarios and start_year <= end_year, a forecast that
\* completes returns exactly one row for each scenario and year of the
\* inclusive range and no row outside it; ProphetModel and MLEnsembleModel
\* complete on every history, the empty one included, with a share that is
\* the same for the same year whatever the scenario.
C27_OneRowPerYearOfTheRange ==
    /\ (IsScenarioSet(req.scenarios) /\ req.span >= 0) =>
            \A m \in DOMAIN model_forecasts :
                OneRowPerRequestedCell(model_forecasts[m])
    /\ \A m \in {"prophet", "ml_ensemble"} :
        m \in DOMAIN received =>
            /\ m \in DOMAIN model_forecasts
            /\ \A i, j \in DOMAIN model_forecasts[m] :
                model_forecasts[m][i].year = model_forecasts[m][j].year =>
                    model_forecasts[m][i].nuclear_share
                        = model_forecasts[m][j].nuclear_share

\* all four models have been called on an empty history for two distinct
\* scenarios and a range of several years, and the placeholders returned
C27_Witness ==
    /\ DOMAIN received = ModelNames
    /\ received["prophet"].rows = <<>>
    /\ Len(req.scenarios) = 2
    /\ IsScenarioSet(req.scenarios)
    /\ req.span > 0
    /\ Len(model_forecasts["prophet"]) = 2 * (req.span + 1)
    /\ "ml_ensemble" \in DOMAIN model_forecasts


C29_BatchPersistedOnce ==
    pc = "stored" => nuclear_scenarios = table_at_call \o result.rows


\* C30: a POST /data/refresh request eventually returns: once refresh_data
\* has begun the EIA collection it goes on to the NERC collection and in
\* the end responds, with status success or with HTTP 500.
C30_RefreshEventuallyResponds ==
    (refresh.pc = "eia_get") ~> (refresh.pc \in {"nerc_get", "success", "error"})

====
